---------------------------- MODULE Spec2Model ----------------------------
(***************************************************************************)
(* CareTrekApp: the theme colour resolver extractColor of the health       *)
(* history screen, modelled over a JavaScript-like value domain.           *)
(*                                                                         *)
(* Primitives are values; objects and arrays live in a heap and are        *)
(* referred to by index, so that a property may refer to any container.    *)
(* Strings are sequences of one-character strings, so that trim() and      *)
(* String(n) are computed and not assumed.                                 *)
(***************************************************************************)
EXTENDS Integers, Sequences, FiniteSets, TLC

(***************************************************************************)
(* Bounds of the model.                                                    *)
(***************************************************************************)
\* containers (objects and arrays) a theme value is built from
MaxObjs == 2
\* properties and array elements, all containers of a theme value together
MaxEntries == 2
\* HealthHistoryScreen: loads in flight at a time
MaxInFlight == 2
\* HealthHistoryScreen: records added on top of the loaded ones
MaxAdded == 1
\* HealthHistoryScreen: days the clock advances
ClockSpan == 1
\* HomeScreenFamily: the highest battery level of a senior, in percent
MaxBattery == 100
\* HomeScreenFamily: timeouts pending at a time
MaxTimers == 3
\* HomeScreenFamily: clock ticks the delay of a refresh lasts
RefreshTicks == 2

\* The engine's call stack holds more frames than any theme value of the
\* model that has no cycle is deep (one frame per container plus the leaf).
StackLimit == MaxObjs + 3

(***************************************************************************)
(* Values.  t is the result of typeof, except "null" (typeof null is       *)
(* "object", told apart by value === null) and "RangeError", the outcome   *)
(* of a call that exceeded the call stack.  s is the text of a string,     *)
(* n the number, the truth value (0/1) or the heap index of a container.   *)
(***************************************************************************)
Val(t, s, n) == [t |-> t, s |-> s, n |-> n]
Null == Val("null", <<>>, 0)
Undefined == Val("undefined", <<>>, 0)
Bool(b) == Val("boolean", <<>>, IF b THEN 1 ELSE 0)
Num(n) == Val("number", <<>>, n)
Str(s) == Val("string", s, 0)
Ref(i) == Val("object", <<>>, i)
RangeError == Val("RangeError", <<>>, 0)

Whitespace == {" ", "\t"}
HexDigits == {"0", "1", "2", "3", "4", "5", "6", "7", "8", "9",
              "a", "b", "c", "d", "e", "f", "A", "B", "C", "D", "E", "F"}
Letters == {"a", "b", "c", "d", "e", "f", "g", "h", "i", "j", "k", "l", "m",
            "n", "o", "p", "q", "r", "s", "t", "u", "v", "w", "x", "y", "z",
            "A", "B", "C", "D", "E", "F", "G", "H", "I", "J", "K", "L", "M",
            "N", "O", "P", "Q", "R", "S", "T", "U", "V", "W", "X", "Y", "Z"}

\* String.prototype.trim: drop the leading, then the trailing white space
RECURSIVE TrimStart(_)
TrimStart(s) ==
    IF s # <<>> /\ Head(s) \in Whitespace THEN TrimStart(Tail(s)) ELSE s

RECURSIVE TrimEnd(_)
TrimEnd(s) ==
    IF s # <<>> /\ s[Len(s)] \in Whitespace
    THEN TrimEnd(SubSeq(s, 1, Len(s) - 1))
    ELSE s

Trim_NoTrim(s) == s

Trim_Once(s) ==
    LET a == IF s # <<>> /\ Head(s) \in Whitespace THEN Tail(s) ELSE s
    IN IF a # <<>> /\ a[Len(a)] \in Whitespace THEN SubSeq(a, 1, Len(a) - 1) ELSE a

Trim(s) == TrimEnd(TrimStart(s))

\* /^#([A-Fa-f0-9]{3,8})$/ on the trimmed text
isHex(s) ==
    LET u == Trim(s)
    IN /\ Len(u) \in 4..9
       /\ u[1] = "#"
       /\ \A i \in 2..Len(u) : u[i] \in HexDigits

\* /^rgba?\(/i on the trimmed text
isRgb(s) ==
    LET u == Trim(s)
        r(i) == u[i] \in {"r", "R"}
        g(i) == u[i] \in {"g", "G"}
        b(i) == u[i] \in {"b", "B"}
        a(i) == u[i] \in {"a", "A"}
    IN \/ Len(u) >= 4 /\ r(1) /\ g(2) /\ b(3) /\ u[4] = "("
       \/ Len(u) >= 5 /\ r(1) /\ g(2) /\ b(3) /\ a(4) /\ u[5] = "("

\* /^[a-zA-Z]+$/ on the trimmed text
isColorName(s) ==
    LET u == Trim(s)
    IN Len(u) >= 1 /\ \A i \in 1..Len(u) : u[i] \in Letters

\* String(n) for an integer n: decimal digits, "-" in front when negative
DigitChars == <<"0", "1", "2", "3", "4", "5", "6", "7", "8", "9">>

RECURSIVE Digits(_)
Digits(n) ==
    IF n < 10 THEN <<DigitChars[n + 1]>>
    ELSE Append(Digits(n \div 10), DigitChars[(n % 10) + 1])

NumberToString(n) == IF n < 0 THEN <<"-">> \o Digits(0 - n) ELSE Digits(n)

\* ToBoolean, as applied by `if (candidate)`
Truthy_NotUndefined(v) == v.t # "undefined"

Truthy_ZeroTextIsFalsy(v) ==
    CASE v.t \in {"null", "undefined"} -> FALSE
      [] v.t = "string" -> Len(v.s) > 0 /\ v.s # <<"0">>
      [] v.t \in {"number", "boolean"} -> v.n # 0
      [] OTHER -> TRUE

Truthy(v) ==
    CASE v.t \in {"null", "undefined"} -> FALSE
      [] v.t = "string" -> Len(v.s) > 0
      [] v.t \in {"number", "boolean"} -> v.n # 0
      [] OTHER -> TRUE

(***************************************************************************)
(* Containers.  A container is the sequence of its own enumerable          *)
(* properties in enumeration order, which for the names below is the       *)
(* order of insertion; the elements of an array are its properties "0",    *)
(* "1", ... in index order.                                                *)
(***************************************************************************)
IndexKeys == <<"0", "1", "2", "3", "4", "5", "6", "7">>

Prop(k, v) == [key |-> k, val |-> v]
Container(isArr, props) == [isArray |-> isArr, props |-> props]

\* Object.prototype.hasOwnProperty.call(value, k)
hasOwnProperty(node, k) == \E i \in 1..Len(node.props) : node.props[i].key = k

\* value[k] for an own property k
Get(node, k) ==
    node.props[CHOOSE i \in 1..Len(node.props) : node.props[i].key = k].val

priorityKeys_Swapped ==
    <<"hex", "color", "value", "main", "primary", "default", "light", "dark", "DEFAULT">>

priorityKeys ==
    <<"hex", "color", "value", "main", "DEFAULT", "default", "light", "dark", "primary">>

\* the values the loop over priorityKeys recurses into, in its order
PriorityValues(node) ==
    LET present(k) == hasOwnProperty(node, k)
        ks == SelectSeq(priorityKeys, present)
    IN [i \in 1..Len(ks) |-> Get(node, ks[i])]

\* the values `for (const k in value)` recurses into, in its order
ForInValues_None(node) == <<>>

ForInValues_Reversed(node) ==
    [i \in 1..Len(node.props) |-> node.props[Len(node.props) + 1 - i].val]

ForInValues(node) == [i \in 1..Len(node.props) |-> node.props[i].val]

\* the values `for (const v of value)` recurses into: the array's elements
ForOfValues(node) ==
    IF node.isArray THEN [i \in 1..Len(node.props) |-> node.props[i].val]
    ELSE <<>>

\* the fallback argument of the nested calls: `null as any`
NestedFallback_PassThrough(fallback) == fallback

NestedFallback(fallback) == Null

\* the default parameter: fallback = '#000000' applies to undefined
DefaultColor == <<"#", "0", "0", "0", "0", "0", "0">>

DefaultParam_None(fallbackArg) == fallbackArg

DefaultParam(fallbackArg) ==
    IF fallbackArg.t = "undefined" THEN Str(DefaultColor) ELSE fallbackArg

\* the string branch
ExtractString_NoEmptyCheck(value, fallback) == Str(Trim(value.s))

ExtractString(value, fallback) ==
    LET s == Trim(value.s)
    IN IF isHex(s) \/ isRgb(s) \/ isColorName(s) \/ Len(s) > 0
       THEN Str(s)
       ELSE fallback

\* the number branch
ExtractNumber_Raw(value) == value

ExtractNumber(value) == Str(NumberToString(value.n))

RECURSIVE extractColorAt(_, _, _, _)
RECURSIVE FirstCandidate(_, _, _, _)

\* One of the three loops: the first truthy candidate of the values vals,
\* Null when there is none; an exception of a nested call propagates.
FirstCandidate(h, vals, fallback, depth) ==
    IF vals = <<>> THEN Null
    ELSE LET candidate == extractColorAt(h, Head(vals), NestedFallback(fallback), depth)
         IN IF candidate.t = "RangeError" \/ Truthy(candidate)
            THEN candidate
            ELSE FirstCandidate(h, Tail(vals), fallback, depth)

\* extractColor(value, fallback) running in frame number depth of the stack
extractColorAt(h, value, fallback, depth) ==
    IF depth > StackLimit THEN RangeError
    ELSE IF value.t \in {"null", "undefined"} THEN fallback
    ELSE IF value.t = "string" THEN ExtractString(value, fallback)
    ELSE IF value.t = "number" THEN ExtractNumber(value)
    ELSE IF value.t = "object" THEN
        LET node == h[value.n]
            c1 == FirstCandidate(h, PriorityValues(node), fallback, depth + 1)
            c2 == FirstCandidate(h, ForInValues(node), fallback, depth + 1)
            c3 == FirstCandidate(h, ForOfValues(node), fallback, depth + 1)
        IN IF c1.t = "RangeError" \/ Truthy(c1) THEN c1
           ELSE IF c2.t = "RangeError" \/ Truthy(c2) THEN c2
           ELSE IF c3.t = "RangeError" \/ Truthy(c3) THEN c3
           ELSE fallback
    ELSE fallback

\* a call of extractColor from the screen
extractColor(h, value, fallbackArg) ==
    extractColorAt(h, value, DefaultParam(fallbackArg), 1)

(***************************************************************************)
(* The inputs.                                                             *)
(***************************************************************************)
KeyPool == {"hex", "DEFAULT", "primary", "brand"}

C112233 == <<"#", "1", "1", "2", "2", "3", "3">>
Cfff == <<"#", "f", "f", "f">>
C777777 == <<"#", "7", "7", "7", "7", "7", "7">>

\* primitives found inside containers
EntryPrims ==
    {Null, Bool(TRUE), Num(0), Str(<<>>), Str(C112233),
     Str(<<" ">> \o Cfff \o <<" ">>)}

\* primitives passed as the theme value itself
TopPrims ==
    EntryPrims \cup
    {Undefined, Bool(FALSE), Str(<<" ">>), Num(42), Num(0 - 7), Num(100),
     Str(<<" ", "\t", " ">>), Str(Cfff),
     Str(<<"\t", "#", "a", "1", "b", "2", "c", "3">>),
     Str(<<"#", "a", "1", "b", "2", "c", "3", "f", "f", " ">>),
     Str(<<"r", "g", "b", "(", "0", ",", "0", ",", "0", ")">>),
     Str(<<" ", "R", "g", "B", "a", "(", "0", ",", "0", ",", "0", ",", "1", ")">>),
     Str(<<"r", "e", "d">>),
     Str(<<"c", "o", "l", "o", "r", "-", "1">>),
     Str(<<" ", "a", " ", "b", " ">>),
     Str(<<"#", "g", "g">>)}

\* the fallback argument: omitted, a colour, the empty string
Fallbacks == {Undefined, Str(C777777), Str(<<>>)}

\* the resolver: the containers built, the call made, what it returned and
\* what resolving that result once more returned
VARIABLES heap, pc, theme, fallbackArg, result, again

\* HomeScreenFamily: the refreshing flag, the timeouts set by onRefresh and
\* not yet fired (ticks left of each, in the order they were set), and the
\* route on top of the navigation stack; the senior card rendered last (the
\* item's battery, the theme's isDark and the two colours of the battery
\* metric)
VARIABLES homeRefreshing, homeTimers, route, card

\* HealthHistoryScreen: the component's state (useState), and around it
\* whether the mount effect has run, the loads waiting for their timeout
\* (who started each, in starting order), the Alert on display, the clock
\* (in days) and the handler that ran last
VARIABLES healthData, isLoading, refreshing, error, selectedRecord, showRecordModal,
          mounted, inflight, dialog, now, last

resolverVars == <<heap, pc, theme, fallbackArg, result, again>>
homeVars == <<homeRefreshing, homeTimers, route, card>>
healthState == <<healthData, isLoading, refreshing, error, selectedRecord, showRecordModal>>
healthVars == <<healthState, mounted, inflight, dialog, now, last>>
screenVars == <<homeVars, healthVars>>

vars == <<resolverVars, screenVars>>

Entries(h) ==
    LET RECURSIVE Sum(_)
        Sum(i) == IF i = 0 THEN 0 ELSE Len(h[i].props) + Sum(i - 1)
    IN Sum(Len(h))

\* what a property of a new container may hold: a primitive or a
\* container built before
EntryVals(h) == EntryPrims \cup {Ref(i) : i \in 1..Len(h)}

Injective(f) == \A i, j \in DOMAIN f : i # j => f[i] # f[j]

Route(screen, seniorId) == [screen |-> screen, seniorId |-> seniorId]
HomeRoute == Route("HomeScreenFamily", "")

InitResolver ==
    /\ heap = <<>>
    /\ pc = "build"
    /\ theme = Undefined
    /\ fallbackArg = Undefined
    /\ result = Undefined
    /\ again = Undefined

InitHome ==
    /\ homeRefreshing = FALSE
    /\ homeTimers = <<>>
    /\ route = HomeRoute
    /\ card = [rendered |-> FALSE, battery |-> Undefined, isDark |-> FALSE,
               iconColor |-> "", textColor |-> ""]

\* the mock records of loadHealthRecords, as written
Record(id, date, type, severity) ==
    [id |-> id, date |-> date, type |-> type, severity |-> severity]

\* the days of a year before each month
DaysBeforeMonth == <<0, 31, 59, 90, 120, 151, 181, 212, 243, 273, 304, 334>>

\* new Date(year, monthIndex, day), counted in days (no leap year is involved)
Date(year, monthIndex, day) == year * 365 + DaysBeforeMonth[monthIndex + 1] + day

mockRecords ==
    <<Record(<<"1">>, Date(2025, 10, 1), "appointment", "low"),
      Record(<<"2">>, Date(2025, 9, 15), "medication", "medium"),
      Record(<<"3">>, Date(2025, 9, 10), "symptom", "high"),
      Record(<<"4">>, Date(2025, 8, 22), "appointment", "low"),
      Record(<<"5">>, Date(2025, 8, 5), "medication", "low")>>

\* the clock starts the day before the newest mock record
FirstNow == mockRecords[1].date - 1

NullError == "null"
NullRecord == <<>>
NoDialog == [kind |-> "none", type |-> ""]

InitHealth ==
    /\ healthData = [records |-> <<>>, lastUpdated |-> FirstNow]
    /\ isLoading = TRUE
    /\ refreshing = FALSE
    /\ error = NullError
    /\ selectedRecord = NullRecord
    /\ showRecordModal = FALSE
    /\ mounted = FALSE
    /\ inflight = <<>>
    /\ dialog = NoDialog
    /\ now = FirstNow
    /\ last = "useState"

Init == InitResolver /\ InitHome /\ InitHealth

\* an object literal { k1: v1, ..., kn: vn } with distinct keys
NewObject ==
    /\ pc = "build"
    /\ Len(heap) < MaxObjs
    /\ \E n \in 0..(MaxEntries - Entries(heap)) :
         \E ks \in [1..n -> KeyPool], vs \in [1..n -> EntryVals(heap)] :
            /\ Injective(ks)
            /\ heap' = Append(heap, Container(FALSE, [i \in 1..n |-> Prop(ks[i], vs[i])]))
    /\ UNCHANGED <<pc, theme, fallbackArg, result, again, screenVars>>

\* an array literal [v1, ..., vn]
NewArray ==
    /\ pc = "build"
    /\ Len(heap) < MaxObjs
    /\ \E n \in 0..(MaxEntries - Entries(heap)) :
         \E vs \in [1..n -> EntryVals(heap)] :
            heap' = Append(heap, Container(TRUE, [i \in 1..n |-> Prop(IndexKeys[i], vs[i])]))
    /\ UNCHANGED <<pc, theme, fallbackArg, result, again, screenVars>>

\* the theme value handed to the resolver: the container built last, or a
\* primitive when none was built
ThemeInputs(h) == IF h = <<>> THEN TopPrims ELSE {Ref(Len(h))}

\* extractColor(theme, fallback)
Resolve ==
    /\ pc = "build"
    /\ \E v \in ThemeInputs(heap), fb \in Fallbacks :
         /\ theme' = v
         /\ fallbackArg' = fb
         /\ result' = extractColor(heap, v, fb)
    /\ pc' = "done"
    /\ UNCHANGED <<heap, again, screenVars>>

Next == NewObject \/ NewArray \/ Resolve

Spec == Init /\ [][Next]_vars

(***************************************************************************)
(* Themes mutated after construction: value[k] = v on an object (the       *)
(* property keeps its place when it exists, else it is added last) and     *)
(* value.push(v) on an array.  v may be any container, the assigned one    *)
(* and its ancestors included, so a theme value may contain itself.        *)
(***************************************************************************)
AssignProp ==
    /\ pc = "build"
    /\ \E o \in 1..Len(heap), v \in EntryVals(heap) :
         LET node == heap[o]
             n == Len(node.props)
         IN IF node.isArray
            THEN /\ Entries(heap) < MaxEntries
                 /\ heap' = [heap EXCEPT ![o].props = Append(@, Prop(IndexKeys[n + 1], v))]
            ELSE \E k \in KeyPool :
                   IF hasOwnProperty(node, k)
                   THEN heap' = [heap EXCEPT ![o].props =
                                   [i \in 1..n |-> IF @[i].key = k THEN Prop(k, v) ELSE @[i]]]
                   ELSE /\ Entries(heap) < MaxEntries
                        /\ heap' = [heap EXCEPT ![o].props = Append(@, Prop(k, v))]
    /\ UNCHANGED <<pc, theme, fallbackArg, result, again, screenVars>>

NextCyclic == Next \/ AssignProp

SpecCyclic == Init /\ [][NextCyclic]_vars

(***************************************************************************)
(* Re-resolving: the caller resolves the theme value and then resolves     *)
(* the string it got, with the same fallback.  The fallbacks include text  *)
(* with white space around it and blank text.                              *)
(***************************************************************************)
IdemFallbacks ==
    Fallbacks \cup {Str(<<" ">> \o C777777 \o <<" ">>), Str(<<" ">>)}

\* extractColor(extractColor(theme, fallback), fallback)
ResolveTwice ==
    /\ pc = "build"
    /\ \E v \in ThemeInputs(heap), fb \in IdemFallbacks :
         LET first == extractColor(heap, v, fb)
         IN /\ theme' = v
            /\ fallbackArg' = fb
            /\ result' = first
            /\ again' = extractColor(heap, first, fb)
    /\ pc' = "twice"
    /\ UNCHANGED <<heap, screenVars>>

NextIdem == NewObject \/ NewArray \/ ResolveTwice

SpecIdem == Init /\ [][NextIdem]_vars

(***************************************************************************)
(* HomeScreenFamily.  onRefresh sets the flag and a timeout of 1000 ms     *)
(* whose callback clears it; nothing cancels a timeout.  Timeouts have     *)
(* the same delay, so they fire in the order they were set.                *)
(***************************************************************************)
SeniorIds == {"1", "2"}

\* the routes the screen navigates to: the quick actions (seniorId '1'),
\* a senior card, the settings and the SOS button
HomeTargets ==
    {Route(sc, "1") : sc \in {"TrackSenior", "HealthHistory", "Messages", "Alerts"}}
    \cup {Route("SeniorDetail", id) : id \in SeniorIds}
    \cup {Route("Settings", ""), Route("SOSContacts", "")}

\* onRefresh, by the RefreshControl of the displayed screen
HomeOnRefresh ==
    /\ route = HomeRoute
    /\ Len(homeTimers) < MaxTimers
    /\ homeRefreshing' = TRUE
    /\ homeTimers' = Append(homeTimers, RefreshTicks)
    /\ UNCHANGED <<route, card, resolverVars, healthVars>>

\* time passes: one tick less for every pending timeout
HomeTick ==
    /\ homeTimers # <<>>
    /\ \A i \in 1..Len(homeTimers) : homeTimers[i] > 0
    /\ homeTimers' = [i \in 1..Len(homeTimers) |-> homeTimers[i] - 1]
    /\ UNCHANGED <<homeRefreshing, route, card, resolverVars, healthVars>>

\* the callback of the oldest timeout: setRefreshing(false)
HomeTimerFires ==
    /\ homeTimers # <<>>
    /\ Head(homeTimers) = 0
    /\ homeRefreshing' = FALSE
    /\ homeTimers' = Tail(homeTimers)
    /\ UNCHANGED <<route, card, resolverVars, healthVars>>

\* navigation.navigate(...) from the displayed screen
HomeNavigate ==
    /\ route = HomeRoute
    /\ \E r \in HomeTargets : route' = r
    /\ UNCHANGED <<homeRefreshing, homeTimers, card, resolverVars, healthVars>>

\* back from the pushed screen; HomeScreenFamily stayed mounted under it
HomeReturn ==
    /\ route # HomeRoute
    /\ route' = HomeRoute
    /\ UNCHANGED <<homeRefreshing, homeTimers, card, resolverVars, healthVars>>

NextHome == HomeOnRefresh \/ HomeTick \/ HomeTimerFires \/ HomeNavigate \/ HomeReturn

SpecHome == Init /\ [][NextHome]_vars

(***************************************************************************)
(* HomeScreenFamily: the battery metric of renderSeniorCard.  battery is   *)
(* optional in SeniorMember, so an item carries a number or undefined.     *)
(***************************************************************************)
LowBattery == 20

\* a && b
LogicalAnd(a, b) == IF Truthy(a) THEN b ELSE a

\* item.battery && item.battery < 20, as the condition of ?:
BatteryIsLow(battery) == Truthy(LogicalAnd(battery, Bool(battery.n < LowBattery)))

\* the colour of the battery icon
batteryIconColor(battery) == IF BatteryIsLow(battery) THEN "#E53E3E" ELSE "#38A169"

\* the colour of the battery text
batteryTextColor(battery, isDark) ==
    IF BatteryIsLow(battery) THEN "#E53E3E"
    ELSE IF isDark THEN "#E2E8F0" ELSE "#2D3748"

\* the battery of an item: left out, or a level in percent
Batteries == {Undefined} \cup {Num(b) : b \in 0..MaxBattery}

\* the list renders the card of an item
renderSeniorCard ==
    /\ route = HomeRoute
    /\ \E battery \in Batteries, isDark \in BOOLEAN :
         card' = [rendered |-> TRUE, battery |-> battery, isDark |-> isDark,
                  iconColor |-> batteryIconColor(battery),
                  textColor |-> batteryTextColor(battery, isDark)]
    /\ UNCHANGED <<homeRefreshing, homeTimers, route, resolverVars, healthVars>>

NextCard == renderSeniorCard

SpecCard == Init /\ [][NextCard]_vars

(***************************************************************************)
(* HealthHistoryScreen.  A handler runs to its end before the next one     *)
(* starts; loadHealthRecords runs up to its await, and its continuation    *)
(* runs when its timeout of 800 ms fires.  The timeouts have the same      *)
(* delay, so the loads complete in the order they were started.  The try   *)
(* block stands for an API call ("replace with API call"): a load either   *)
(* succeeds or throws before setHealthData, which runs catch and finally.  *)
(***************************************************************************)
FailedMessage == "Failed to load health records. Please try again."
AddTypes == {"appointment", "medication", "symptom"}

\* which of the three returns of the component renders
View ==
    IF isLoading /\ ~refreshing THEN "loading"
    ELSE IF error # NullError THEN "error"
    ELSE "main"

\* <Modal visible={showRecordModal && selectedRecord !== null}>
ModalVisible == View = "main" /\ showRecordModal /\ selectedRecord # NullRecord

\* the list and the header can be touched
MainTouchable == View = "main" /\ ~ModalVisible /\ dialog = NoDialog

\* the comparator of mockRecords.sort
compareRecords_Ascending(a, b) == a.date - b.date

compareRecords(a, b) == b.date - a.date

\* Array.prototype.sort with compareRecords: stable, an element goes to the
\* place given by the number of elements the comparator puts before it
SortRecords(recs) ==
    LET n == Len(recs)
        Before(k, j) ==
            \/ compareRecords(recs[k], recs[j]) < 0
            \/ compareRecords(recs[k], recs[j]) = 0 /\ k < j
        Rank(j) == Cardinality({k \in 1..n : Before(k, j)}) + 1
    IN  [i \in 1..n |-> recs[CHOOSE j \in 1..n : Rank(j) = i]]

\* setError(null) at the start of loadHealthRecords
StartError_Keep == error

StartError == NullError

\* the value of setHealthData after a load
LoadedData_KeepAdded ==
    [records |-> SelectSeq(healthData.records, LAMBDA r : Len(r.id) > 1)
                   \o SortRecords(mockRecords),
     lastUpdated |-> now]

LoadedData == [records |-> SortRecords(mockRecords), lastUpdated |-> now]

\* finally: setIsLoading(false); setRefreshing(false)
FinallyRefreshing_Missing == refreshing

FinallyRefreshing == FALSE

FinallyIsLoading == FALSE

\* loadHealthRecords up to the await
StartLoad(origin) ==
    /\ Len(inflight) < MaxInFlight
    /\ error' = StartError
    /\ inflight' = Append(inflight, origin)

\* useEffect(() => { loadHealthRecords(); }, [loadHealthRecords])
HealthMount ==
    /\ ~mounted
    /\ mounted' = TRUE
    /\ StartLoad("mount")
    /\ last' = "mount"
    /\ UNCHANGED <<healthData, isLoading, refreshing, selectedRecord, showRecordModal,
                   dialog, now, resolverVars, homeVars>>

\* onRefresh: setRefreshing(true); loadHealthRecords()
onRefresh ==
    /\ refreshing' = TRUE
    /\ StartLoad("refresh")
    /\ last' = "onRefresh"
    /\ UNCHANGED <<healthData, isLoading, selectedRecord, showRecordModal,
                   mounted, dialog, now, resolverVars, homeVars>>

\* the RefreshControl of the list
PullToRefresh == mounted /\ MainTouchable /\ onRefresh

\* the refresh button of the header: disabled={refreshing}
PressRefresh == mounted /\ MainTouchable /\ ~refreshing /\ onRefresh

\* the Try Again button of the error view: onPress={loadHealthRecords}
PressRetry ==
    /\ mounted
    /\ View = "error"
    /\ dialog = NoDialog
    /\ StartLoad("retry")
    /\ last' = "retry"
    /\ UNCHANGED <<healthData, isLoading, refreshing, selectedRecord, showRecordModal,
                   mounted, dialog, now, resolverVars, homeVars>>

\* the oldest load continues after its await and succeeds
LoadSucceeds ==
    /\ inflight # <<>>
    /\ inflight' = Tail(inflight)
    /\ healthData' = LoadedData
    /\ error' = NullError
    /\ isLoading' = FinallyIsLoading
    /\ refreshing' = FinallyRefreshing
    /\ last' = "loadOk"
    /\ UNCHANGED <<selectedRecord, showRecordModal, mounted, dialog, now,
                   resolverVars, homeVars>>

\* the oldest load throws inside try: catch, then finally
LoadFails ==
    /\ inflight # <<>>
    /\ inflight' = Tail(inflight)
    /\ error' = FailedMessage
    /\ isLoading' = FinallyIsLoading
    /\ refreshing' = FinallyRefreshing
    /\ last' = "loadFail"
    /\ UNCHANGED <<healthData, selectedRecord, showRecordModal, mounted, dialog, now,
                   resolverVars, homeVars>>

\* closeRecordModal's setSelectedRecord(null)
ClosedSelection_Keep == selectedRecord

ClosedSelection == NullRecord

handleRecordPress ==
    /\ mounted
    /\ MainTouchable
    /\ \E i \in 1..Len(healthData.records) :
         selectedRecord' = <<healthData.records[i]>>
    /\ showRecordModal' = TRUE
    /\ last' = "handleRecordPress"
    /\ UNCHANGED <<healthData, isLoading, refreshing, error, mounted, inflight, dialog,
                   now, resolverVars, homeVars>>

closeRecordModal ==
    /\ ModalVisible
    /\ dialog = NoDialog
    /\ showRecordModal' = FALSE
    /\ selectedRecord' = ClosedSelection
    /\ last' = "closeRecordModal"
    /\ UNCHANGED <<healthData, isLoading, refreshing, error, mounted, inflight, dialog,
                   now, resolverVars, homeVars>>

\* the Add button: the Alert that asks for the type
handleAddRecord ==
    /\ mounted
    /\ MainTouchable
    /\ dialog' = [kind |-> "type", type |-> ""]
    /\ last' = "handleAddRecord"
    /\ UNCHANGED <<healthState, mounted, inflight, now, resolverVars, homeVars>>

\* a type button: showAddRecordForm(type), the Alert that asks to confirm
showAddRecordForm ==
    /\ dialog.kind = "type"
    /\ \E type \in AddTypes : dialog' = [kind |-> "confirm", type |-> type]
    /\ last' = "showAddRecordForm"
    /\ UNCHANGED <<healthState, mounted, inflight, now, resolverVars, homeVars>>

\* Cancel (or dismissal) of the type Alert
CancelType ==
    /\ dialog.kind = "type"
    /\ dialog' = NoDialog
    /\ last' = "cancelType"
    /\ UNCHANGED <<healthState, mounted, inflight, now, resolverVars, homeVars>>

\* the record built by OK
newRecord(type) == Record(NumberToString(now), now, type, "medium")

\* setHealthData((prev) => ({...prev, records: [newRecord, ...prev.records], ...}))
AddedData_Appended(prev, rec) ==
    [records |-> Append(prev.records, rec), lastUpdated |-> now]

AddedData(prev, rec) == [records |-> <<rec>> \o prev.records, lastUpdated |-> now]

\* the number of records of the list that were added
Added(recs) == Len(SelectSeq(recs, LAMBDA r : r \notin {mockRecords[i] : i \in 1..Len(mockRecords)}))

\* OK of the confirmation Alert
ConfirmOk ==
    /\ dialog.kind = "confirm"
    /\ Added(healthData.records) < MaxAdded
    /\ healthData' = AddedData(healthData, newRecord(dialog.type))
    /\ dialog' = [kind |-> "success", type |-> ""]
    /\ last' = "addOk"
    /\ UNCHANGED <<isLoading, refreshing, error, selectedRecord, showRecordModal,
                   mounted, inflight, now, resolverVars, homeVars>>

\* Cancel of the confirmation Alert
ConfirmCancel ==
    /\ dialog.kind = "confirm"
    /\ dialog' = NoDialog
    /\ last' = "cancelConfirm"
    /\ UNCHANGED <<healthState, mounted, inflight, now, resolverVars, homeVars>>

\* the Success Alert is dismissed
DismissSuccess ==
    /\ dialog.kind = "success"
    /\ dialog' = NoDialog
    /\ last' = "dismissSuccess"
    /\ UNCHANGED <<healthState, mounted, inflight, now, resolverVars, homeVars>>

\* a day passes
HealthTick ==
    /\ now < FirstNow + ClockSpan
    /\ now' = now + 1
    /\ last' = "tick"
    /\ UNCHANGED <<healthState, mounted, inflight, dialog, resolverVars, homeVars>>

NextHealth ==
    \/ HealthMount
    \/ PullToRefresh
    \/ PressRefresh
    \/ PressRetry
    \/ LoadSucceeds
    \/ LoadFails
    \/ handleRecordPress
    \/ closeRecordModal
    \/ handleAddRecord
    \/ showAddRecordForm
    \/ CancelType
    \/ ConfirmOk
    \/ ConfirmCancel
    \/ DismissSuccess
    \/ HealthTick

SpecHealth == Init /\ [][NextHealth]_vars

\* the effect runs after the first render, and a pending timeout fires
SpecHealthFair ==
    SpecHealth /\ WF_vars(HealthMount) /\ WF_vars(LoadSucceeds \/ LoadFails)


(***************************************************************************)
(* The claims.  A nested value "resolves" to what the resolver returns for *)
(* it with the fallback suppressed; it "yields" when that is a non-empty   *)
(* string.                                                                 *)
(***************************************************************************)
Done == pc = "done"
Min(S) == CHOOSE x \in S : \A y \in S : x <= y
Max(S) == CHOOSE x \in S : \A y \in S : x >= y

NonEmptyString(r) == r.t = "string" /\ Len(r.s) > 0
Resolved(v) == extractColorAt(heap, v, Null, 1)
Yields(v) == NonEmptyString(Resolved(v))

\* the fallback the caller chose: the argument, '#000000' when left out
CallerFallback ==
    IF fallbackArg = Undefined THEN Str(<<"#", "0", "0", "0", "0", "0", "0">>)
    ELSE fallbackArg

ThemeIsObject == Done /\ theme.t = "object" /\ ~heap[theme.n].isArray
ThemeIsArray == Done /\ theme.t = "object" /\ heap[theme.n].isArray
ThemeProps == heap[theme.n].props

\* the priority list as the claims state it
ClaimedPriority ==
    <<"hex", "color", "value", "main", "DEFAULT", "default", "light", "dark", "primary">>

\* the places in ClaimedPriority of the keys of the theme object that yield
PriorityHits ==
    {i \in 1..Len(ClaimedPriority) :
        /\ \E j \in 1..Len(ThemeProps) : ThemeProps[j].key = ClaimedPriority[i]
        /\ \A j \in 1..Len(ThemeProps) :
              ThemeProps[j].key = ClaimedPriority[i] => Yields(ThemeProps[j].val)}

ValueOfKey(k) == ThemeProps[CHOOSE j \in 1..Len(ThemeProps) : ThemeProps[j].key = k].val

\* the positions of the properties (elements) of the theme that yield
YieldingProps == {j \in 1..Len(ThemeProps) : Yields(ThemeProps[j].val)}

\* C1: for every theme value of bounded nesting depth and every string
\* fallback (or none), extractColor returns a string: not null, not
\* undefined, not another type, and no exception.
C1_ReturnsString == Done => result.t = "string"

\* C1 witness: a nested, mixed theme (an object holding an array) resolved
C1_Witness ==
    /\ Done /\ Len(heap) = 2 /\ heap[1].isArray /\ ~heap[2].isArray
    /\ \E j \in 1..Len(heap[2].props) : heap[2].props[j].val = Ref(1)
    /\ result.t = "string"

\* C2: for an object, the result is the resolution of the earliest key of
\* the priority list whose value yields, whatever the insertion order and
\* ahead of every non-priority key.
C2_PriorityOrder ==
    (ThemeIsObject /\ PriorityHits # {}) =>
        result = Resolved(ValueOfKey(ClaimedPriority[Min(PriorityHits)]))

\* C2 witness: two yielding priority keys inserted later-priority first
C2_Witness ==
    /\ ThemeIsObject
    /\ Len(ThemeProps) = 2
    /\ ThemeProps[1] = Prop("primary", Str(C112233))
    /\ ThemeProps[2].key = "hex" /\ Yields(ThemeProps[2].val)
    /\ result = Str(Cfff)

\* C3: a present key that resolves to nothing does not end the search: when
\* any key of the object yields, the result is what one of the keys yields
\* and not the caller's fallback.
C3_EmptyKeyDoesNotMask ==
    (ThemeIsObject /\ YieldingProps # {}) =>
        /\ \E j \in YieldingProps : result = Resolved(ThemeProps[j].val)
        /\ result # CallerFallback

\* C3 witness: {hex: {}, primary: '#112233'} with a fallback yields '#112233'
C3_Witness ==
    /\ ThemeIsObject
    /\ heap = <<Container(FALSE, <<>>),
                Container(FALSE, <<Prop("hex", Ref(1)), Prop("primary", Str(C112233))>>)>>
    /\ fallbackArg = Str(C777777)
    /\ result = Str(C112233)

\* C4 as stated: for every theme value and every fallback string the result
\* is a non-empty string.
C4_NonEmptyAnyFallback == Done => NonEmptyString(result)

\* C4 amended: for every theme value and every non-empty fallback string (or
\* no fallback argument) the result is a non-empty string.
C4_NonEmptyResult ==
    (Done /\ (fallbackArg = Undefined \/ NonEmptyString(fallbackArg))) =>
        NonEmptyString(result)

\* C4 witness: a blank string resolved with a non-empty fallback
C4_Witness ==
    /\ Done /\ theme = Str(<<" ", "\t", " ">>) /\ fallbackArg = Str(C777777)
    /\ result = Str(C777777)

\* C5: on every theme value, those that contain themselves included,
\* extractColor terminates and returns a string.
C5_TotalOnCyclic == (Done /\ theme.t = "object") => result.t = "string"

\* the text of s between its first and its last character that is no
\* white space
Stripped(s) ==
    LET I == {i \in 1..Len(s) : s[i] \notin Whitespace}
    IN IF I = {} THEN <<>> ELSE SubSeq(s, Min(I), Max(I))

\* C6: a string resolves to its trimmed text when that is non-empty, colour
\* pattern or not, and to the fallback when it is empty or white space.
C6_TrimmedString ==
    (Done /\ theme.t = "string") =>
        result = IF Stripped(theme.s) = <<>> THEN CallerFallback
                 ELSE Str(Stripped(theme.s))

\* C6 witness: a padded token that matches no colour pattern comes back
\* trimmed
C6_Witness ==
    /\ Done /\ theme = Str(<<" ", "a", " ", "b", " ">>)
    /\ result = Str(<<"a", " ", "b">>)

\* C7: null and undefined resolve to the fallback, to '#000000' when no
\* fallback is passed.
C7_NullishIsFallback ==
    (Done /\ theme \in {Null, Undefined}) =>
        /\ fallbackArg.t = "string" => result = fallbackArg
        /\ fallbackArg = Undefined => result = Str(<<"#", "0", "0", "0", "0", "0", "0">>)

\* C7 witness: extractColor(undefined) = '#000000'
C7_Witness ==
    /\ Done /\ theme = Undefined /\ fallbackArg = Undefined
    /\ result = Str(<<"#", "0", "0", "0", "0", "0", "0">>)

\* C8: when no priority key of an object yields, the result is what the
\* first yielding key in the object's own key order resolves to, at any
\* depth; {primary: {DEFAULT: '#112233'}} and {brand: {DEFAULT: '#112233'}}
\* resolve to '#112233'.
C8_OwnKeyScan ==
    /\ (ThemeIsObject /\ PriorityHits = {} /\ YieldingProps # {}) =>
          result = Resolved(ThemeProps[Min(YieldingProps)].val)
    /\ \A k \in {"primary", "brand"} :
          (/\ Done
           /\ heap = <<Container(FALSE, <<Prop("DEFAULT", Str(C112233))>>),
                       Container(FALSE, <<Prop(k, Ref(1))>>)>>)
          => result = Str(C112233)

\* C8 witness: {brand: {DEFAULT: '#112233'}} resolved to '#112233'
C8_Witness ==
    /\ Done
    /\ heap = <<Container(FALSE, <<Prop("DEFAULT", Str(C112233))>>),
                Container(FALSE, <<Prop("brand", Ref(1))>>)>>
    /\ fallbackArg = Str(C777777)
    /\ result = Str(C112233)

\* C9: an array resolves to what its lowest-index yielding element resolves
\* to; elements that resolve to nothing are skipped.
C9_ArrayFirstWins ==
    (ThemeIsArray /\ YieldingProps # {}) =>
        result = Resolved(ThemeProps[Min(YieldingProps)].val)

\* C9 witness: two yielding elements, the first one is the result
C9_Witness ==
    /\ ThemeIsArray
    /\ Len(ThemeProps) = 2
    /\ ThemeProps[1].val = Str(C112233)
    /\ ThemeProps[2].val = Str(<<" ">> \o Cfff \o <<" ">>)
    /\ result = Str(C112233)

\* C9 witness of the skipping: [null, '#112233'] resolved to '#112233'
C9_SkipWitness ==
    /\ ThemeIsArray
    /\ Len(ThemeProps) = 2
    /\ ThemeProps[1].val = Null
    /\ result = Str(C112233)

\* v holds a number or a non-blank string at some depth (containers refer
\* to containers built before them)
RECURSIVE HasLeaf(_)
HasLeaf(v) ==
    \/ v.t = "number"
    \/ v.t = "string" /\ \E i \in 1..Len(v.s) : v.s[i] \notin Whitespace
    \/ /\ v.t = "object"
       /\ \E j \in 1..Len(heap[v.n].props) : HasLeaf(heap[v.n].props[j].val)

\* C10: a value with no number and no non-blank string at any depth
\* resolves to the caller's fallback.
C10_NoLeafIsFallback == (Done /\ ~HasLeaf(theme)) => result = CallerFallback

\* C10 witness: extractColor({hex: null}, '#777777') = '#777777'
C10_Witness ==
    /\ Done
    /\ heap = <<Container(FALSE, <<Prop("hex", Null)>>)>>
    /\ fallbackArg = Str(C777777)
    /\ result = Str(C777777)

\* C10 witness of the empty object: extractColor({}, '#777777') = '#777777'
C10_EmptyObjectWitness ==
    /\ Done
    /\ heap = <<Container(FALSE, <<>>)>>
    /\ fallbackArg = Str(C777777)
    /\ result = Str(C777777)

\* f is text with white space before or after a non-blank text
Padded(f) ==
    /\ f.t = "string"
    /\ \E i \in 1..Len(f.s) : f.s[i] \notin Whitespace
    /\ f.s[1] \in Whitespace \/ f.s[Len(f.s)] \in Whitespace

\* C11 as stated: for every value and every fallback, resolving the
\* resolver's output again returns it unchanged.
C11_IdempotentAnyFallback == pc = "twice" => again = result

\* C11 amended: resolving the resolver's output again returns it unchanged
\* for every value and every fallback that is left out, blank, or free of
\* leading and trailing white space.
C11_Idempotent == (pc = "twice" /\ ~Padded(fallbackArg)) => again = result

\* C11 witness: a padded colour in an object, resolved to the trimmed text
\* and resolved again
C11_Witness ==
    /\ pc = "twice"
    /\ theme.t = "object"
    /\ fallbackArg = Str(C777777)
    /\ result = Str(Cfff)
    /\ again = Str(Cfff)

\* the decimal text of the numbers of the inputs
Decimal(n) ==
    CASE n = 0 -> <<"0">>
      [] n = 42 -> <<"4", "2">>
      [] n = 100 -> <<"1", "0", "0">>
      [] n = 0 - 7 -> <<"-", "7">>

\* the properties of the container built first
FirstProps == heap[1].props

\* C12: a number resolves to its decimal text, at top level and when
\* reached through an object key or an array element, 0 included: 42 gives
\* '42' and {hex: 0} gives '0', not the fallback.
C12_NumberToText ==
    /\ (Done /\ theme.t = "number") => result = Str(Decimal(theme.n))
    /\ (Done /\ Len(heap) = 1 /\ Len(FirstProps) >= 1 /\ FirstProps[1].val.t = "number"
          /\ (heap[1].isArray \/ Len(FirstProps) = 1))
          => result = Str(Decimal(FirstProps[1].val.n))
    /\ (Done /\ Len(heap) = 2 /\ Len(FirstProps) = 1 /\ FirstProps[1].val.t = "number"
          /\ Len(heap[2].props) = 1 /\ heap[2].props[1].val = Ref(1))
          => result = Str(Decimal(FirstProps[1].val.n))

\* C12 witness: extractColor({hex: 0}, '#777777') = '0'
C12_Witness ==
    /\ Done
    /\ heap = <<Container(FALSE, <<Prop("hex", Num(0))>>)>>
    /\ fallbackArg = Str(C777777)
    /\ result = Str(<<"0">>)

\* C12 witness at top level: extractColor(42) = '42'
C12_TopWitness == Done /\ theme = Num(42) /\ result = Str(<<"4", "2">>)

\* C13: in HomeScreenFamily refreshing stays true as long as a refresh
\* started by onRefresh has not completed its delay: the timeout of an
\* earlier refresh never clears the flag of a later one.
C13_RefreshingWhilePending == homeTimers # <<>> => homeRefreshing

\* the loads still in flight that onRefresh started
RefreshInFlight == {i \in 1..Len(inflight) : inflight[i] = "refresh"}

\* C14: HealthHistoryScreen: refreshing is false only when no load started
\* by onRefresh is still in flight: the completion of one load never clears
\* the flag while a load of a later onRefresh is pending.
C14_RefreshingWhileInFlight == RefreshInFlight # {} => refreshing

\* C15: HealthHistoryScreen, pending timeouts firing: isLoading eventually
\* becomes false and stays false, no step sets it back to true (the loading
\* view is rendered during the first load only), and whenever refreshing is
\* true it is false at some later time.
C15_LoadFinishes ==
    /\ <>[](~isLoading)
    /\ [][~isLoading => ~isLoading' /\ View' # "loading"]_vars
    /\ (refreshing ~> ~refreshing)

C15_Witness == last = "onRefresh" /\ refreshing /\ ~isLoading /\ inflight # <<>>

\* C16: HealthHistoryScreen: a load that fails leaves error a non-null
\* message, isLoading and refreshing false and healthData as it was; the
\* retry button starts a load and leaves error null while that load waits;
\* after a load that succeeds error is null.
C16_FailedLoadNonFatal ==
    [][/\ last' = "loadFail" =>
            /\ error' # NullError
            /\ ~isLoading' /\ ~refreshing'
            /\ healthData' = healthData
       /\ last' = "retry" =>
            /\ error # NullError /\ error' = NullError
            /\ Len(inflight') = Len(inflight) + 1
            /\ healthData' = healthData
       /\ last' = "loadOk" => error' = NullError]_vars

\* a refresh failed after an earlier load had filled the list
C16_Witness ==
    /\ last = "loadFail"
    /\ error = FailedMessage
    /\ ~isLoading /\ ~refreshing
    /\ healthData.records # <<>>

C16_RetryWitness == last = "retry" /\ error = NullError /\ inflight = <<"retry">>

\* the ids of a record list, in order
Ids(recs) == [i \in 1..Len(recs) |-> recs[i].id]

\* C17: HealthHistoryScreen: after a load completes successfully the record
\* list is exactly the five mock records, whatever it held before: a
\* record added before the completion is no longer in the list.
C17_LoadReplacesRecords ==
    last = "loadOk" =>
        /\ Len(healthData.records) = 5
        /\ {Ids(healthData.records)[i] : i \in 1..5} = {<<"1">>, <<"2">>, <<"3">>, <<"4">>, <<"5">>}
        /\ Added(healthData.records) = 0

\* the load completed while the Success alert of an add was still on display
C17_Witness ==
    /\ last = "loadOk"
    /\ dialog.kind = "success"
    /\ Len(healthData.records) = 5

\* C18: HealthHistoryScreen: showRecordModal is true exactly when
\* selectedRecord is not null; handleRecordPress selects the pressed record
\* and opens the modal, closeRecordModal clears both, and no other handler
\* changes either of them.
C18_ModalMatchesSelection ==
    /\ [](showRecordModal <=> selectedRecord # NullRecord)
    /\ [][/\ last' = "handleRecordPress" =>
               /\ showRecordModal'
               /\ \E i \in 1..Len(healthData.records) :
                    selectedRecord' = <<healthData.records[i]>>
          /\ last' = "closeRecordModal" =>
               /\ ~showRecordModal'
               /\ selectedRecord' = NullRecord
          /\ last' \notin {"handleRecordPress", "closeRecordModal"} =>
               UNCHANGED <<selectedRecord, showRecordModal>>]_vars

\* the second record of the list was pressed and is open
C18_Witness ==
    /\ last = "handleRecordPress"
    /\ showRecordModal
    /\ Len(healthData.records) >= 2
    /\ selectedRecord = <<healthData.records[2]>>

C18_ClosedWitness == last = "closeRecordModal" /\ ~showRecordModal /\ selectedRecord = NullRecord

\* the dates of a record list do not increase from an index to the next
Descending(recs) == \A i \in 1..(Len(recs) - 1) : recs[i].date >= recs[i + 1].date

\* the newest date among the mock records
NewestMockDate == Max({mockRecords[i].date : i \in 1..Len(mockRecords)})

\* the records of the list that were added, all dated at or after the newest
\* mock record: the clock was not earlier than that date when they were made
AddedNotEarlier(recs) ==
    \A i \in 1..Len(recs) :
        recs[i] \notin {mockRecords[j] : j \in 1..Len(mockRecords)}
            => recs[i].date >= NewestMockDate

\* C19: HealthHistoryScreen: with a clock that never runs backwards and is
\* not earlier than the newest mock record's date when a record is added,
\* healthData.records is ordered by date from newest to oldest in every
\* reachable state.
C19_RecordsNewestFirst ==
    AddedNotEarlier(healthData.records) => Descending(healthData.records)

\* a record added on top of the loaded ones, dated after them
C19_Witness ==
    /\ last = "addOk"
    /\ Len(healthData.records) = Len(mockRecords) + 1
    /\ AddedNotEarlier(healthData.records)

\* without the proviso: a record dated before the newest mock record
C19_EarlyClockWitness ==
    /\ last = "addOk"
    /\ ~AddedNotEarlier(healthData.records)
    /\ ~Descending(healthData.records)

\* C20: HealthHistoryScreen add flow: Cancel in the type Alert or in the
\* confirmation Alert leaves healthData unchanged; OK puts exactly one new
\* record of the chosen type (appointment, medication or symptom) with
\* severity medium at index 0, keeps the records there were in their order,
\* and leaves isLoading, refreshing, error, selectedRecord and
\* showRecordModal unchanged.
C20_AddFlowFrame ==
    [][/\ last' \in {"cancelType", "cancelConfirm"} =>
            /\ healthData' = healthData
            /\ dialog' = NoDialog
       /\ last' = "addOk" =>
            /\ dialog.kind = "confirm"
            /\ dialog.type \in {"appointment", "medication", "symptom"}
            /\ Len(healthData'.records) = Len(healthData.records) + 1
            /\ healthData'.records[1].type = dialog.type
            /\ healthData'.records[1].severity = "medium"
            /\ Tail(healthData'.records) = healthData.records
            /\ UNCHANGED <<isLoading, refreshing, error, selectedRecord, showRecordModal>>]_vars

\* a symptom was added in front of a list that had records
C20_Witness ==
    /\ last = "addOk"
    /\ Len(healthData.records) > 1
    /\ healthData.records[1].type = "symptom"
    /\ healthData.records[1].severity = "medium"

C20_CancelWitness == last = "cancelConfirm" /\ dialog = NoDialog /\ healthData.records # <<>>

\* C21: HomeScreenFamily: for a senior with a defined battery level b from 0
\* to 100, the battery icon and the battery text have the alert colour
\* '#E53E3E' exactly when b < 20, b = 0 included, and the normal colours
\* otherwise.
C21_AlertBelowTwenty ==
    card.rendered /\ card.battery.t = "number" =>
        IF card.battery.n < 20
        THEN card.iconColor = "#E53E3E" /\ card.textColor = "#E53E3E"
        ELSE /\ card.iconColor = "#38A169"
             /\ card.textColor = (IF card.isDark THEN "#E2E8F0" ELSE "#2D3748")

====
